---- MODULE Spec2Model ----
(***************************************************************************)
(* Far::internal::StencilBuilder and its WeightTable                        *)
(* (opensubdiv/far/stencilBuilder.cpp).                                     *)
(*                                                                          *)
(* The table is the flat storage of the class: the vectors _dests,          *)
(* _sources, _weights, _duWeights, _dvWeights, _indices (the offsets) and   *)
(* _sizes, and the members _size, _lastOffset, _coarseVertCount and         *)
(* _compactWeights.  C++ vectors are 0-based; they are modelled as TLA+     *)
(* sequences and read through At(v, i) == v[i + 1].                         *)
(*                                                                          *)
(* Weights are floats in the code.  The model draws them from small         *)
(* integers, which are floats on which + and * are exact.                   *)
(***************************************************************************)
EXTENDS Integers, Sequences, FiniteSets

\* ------------------------------------------------------------------ bounds

\* Number of coarse (control) vertices given to the constructor.
NumCoarse == 2
\* Largest vertex id used as a source handle or as a destination under
\* SeqSpec: three refined vertices, so that two levels of indirection occur.
MaxVert == 4
\* Largest vertex id used as a source handle or as a destination under Spec
\* and FacadeSpec.
MaxFreeVert == 3
\* Calls made on one table under Spec (any order of destinations).
MaxCalls == 3
\* Calls made on one table under SeqSpec (sequential by destination).
MaxSeqCalls == 4
\* Calls made on one table under FacadeSpec (all three Index entry points).
MaxFacadeCalls == 2
\* Calls made on one table under DerivSpec (derivative entry point only).
MaxDerivCalls == 2
\* Largest weight a caller passes.
MaxWeight == 2
\* Largest number of entries of an external stencil.
MaxExtLen == 1

Verts == 0..MaxVert
FreeVerts == 0..MaxFreeVert
Weights == 0..MaxWeight
\* Weight, du and dv of the derivative entry point.
DerivWeights == {0, 1}
\* Weights held by an external stencil.
ExtWeights == {0, 1}

\* ----------------------------------------------------------------- state

VARIABLES
    coarseVertCount,  \* _coarseVertCount
    compactWeights,   \* _compactWeights
    genCtrl,          \* the constructor's genCtrlVertStencils argument
    dests,            \* _dests: slot -> destination
    sources,          \* _sources: slot -> coarse source
    weights,          \* _weights
    duWeights,        \* _duWeights
    dvWeights,        \* _dvWeights
    indices,          \* _indices: destination -> offset of its stencil
    sizes,            \* _sizes: destination -> size of its stencil
    size,             \* _size
    lastOffset,       \* _lastOffset
    ub,               \* an access outside a vector has happened
    assertFailed,     \* the assertion of the expansion loop has failed
    ncalls,           \* calls made so far (bounds the model)
    last,             \* the last call, with what it saw before it ran
    prev,             \* the call before the last
    cur,              \* SeqSpec: the destination being built, -1 at first
    built,            \* SeqSpec: destinations that have a stencil
    expect,           \* SeqSpec: destination -> expanded weighted sum
    depth             \* SeqSpec: destination -> levels of indirection

tableVars == <<dests, sources, weights, duWeights, dvWeights, indices, sizes,
               size, lastOffset>>
ctorVars == <<coarseVertCount, compactWeights, genCtrl>>
seqVars == <<cur, built, expect, depth>>
vars == <<ctorVars, tableVars, ub, assertFailed, ncalls, last, prev, seqVars>>

\* ---------------------------------------------------------------- helpers

At(v, i) == v[i + 1]

\* std::vector<int>::resize(n) on a vector no longer than n: new entries 0.
Resize(v, n) == [i \in 1..n |-> IF i <= Len(v) THEN v[i] ELSE 0]

Min(S) == CHOOSE x \in S : \A y \in S : x <= y

\* The table as one value, as the member functions see it through `this`.
Table ==
    [coarseVertCount |-> coarseVertCount, compactWeights |-> compactWeights,
     dests |-> dests, sources |-> sources, weights |-> weights,
     duWeights |-> duWeights, dvWeights |-> dvWeights,
     indices |-> indices, sizes |-> sizes,
     size |-> size, lastOffset |-> lastOffset,
     ub |-> ub, assertFailed |-> assertFailed]

\* --------------------------------------------------------- PointDerivWeight

\* PointDerivWeight(float w, float wDu, float wDv)
PointDerivWeight(w, wDu, wDv) == [p |-> w, du |-> wDu, dv |-> wDv]

\* PointDerivWeight(float w): the implicit conversion of a float.
PointDerivWeightOf(w) == [p |-> w, du |-> w, dv |-> w]

\* operator*: component by component.
PointDerivMul(lhs, rhs) ==
    [p |-> lhs.p * rhs.p, du |-> lhs.du * rhs.du, dv |-> lhs.dv * rhs.dv]

\* W * W and W(1.0) for the two instantiations of the templates.
Mul(acc, a, b) == IF acc = "scalar" THEN a * b ELSE PointDerivMul(a, b)
One(acc) == IF acc = "scalar" THEN 1 ELSE PointDerivWeightOf(1)

\* ------------------------------------------------------------- accumulators

\* ScalarAccumulator::PushBack takes a PointDerivWeight: the float is
\* converted and its p pushed.  PointDerivAccumulator::PushBack pushes the
\* three channels.
PushBack(acc, t, w) ==
    IF acc = "scalar"
    THEN [t EXCEPT !.weights = Append(@, PointDerivWeightOf(w).p)]
    ELSE [t EXCEPT !.weights = Append(@, w.p),
                   !.duWeights = Append(@, w.du),
                   !.dvWeights = Append(@, w.dv)]

\* Add(i, w).  The derivative accumulator writes _duWeights[i] and
\* _dvWeights[i]: when i is not an index of these vectors the write is
\* outside them, which is undefined; the vectors keep their elements and ub
\* records it.
AccAdd(acc, t, i, w) ==
    IF acc = "scalar"
    THEN [t EXCEPT !.weights[i + 1] = @ + w]
    ELSE IF i < Len(t.duWeights) /\ i < Len(t.dvWeights)
         THEN [t EXCEPT !.weights[i + 1] = @ + w.p,
                        !.duWeights[i + 1] = @ + w.du,
                        !.dvWeights[i + 1] = @ + w.dv]
         ELSE [t EXCEPT !.weights[i + 1] = @ + w.p, !.ub = TRUE]

\* Get(i).  g is the value an undefined read outside _duWeights / _dvWeights
\* produces.
AccGet(acc, t, i, g) ==
    IF acc = "scalar"
    THEN At(t.weights, i)
    ELSE PointDerivWeight(At(t.weights, i),
                          IF i < Len(t.duWeights) THEN At(t.duWeights, i) ELSE g,
                          IF i < Len(t.dvWeights) THEN At(t.dvWeights, i) ELSE g)

AccGetUndefined(acc, t, i) ==
    acc = "deriv" /\ (i >= Len(t.duWeights) \/ i >= Len(t.dvWeights))

\* -------------------------------------------------------------- WeightTable

\* Mutant of WeightTable: the loop forgets _weights[i] = 1.0, so the resized
\* weights stay 0.
WeightTable_NoWeights(coarseVerts, genCtrlVertStencils, compact) ==
    LET ids == [i \in 1..coarseVerts |-> i - 1]
        ones == [i \in 1..coarseVerts |-> 1]
        zeros == [i \in 1..coarseVerts |-> 0]
    IN [coarseVertCount |-> coarseVerts, compactWeights |-> compact,
        dests |-> IF genCtrlVertStencils THEN ids ELSE <<>>,
        sources |-> IF genCtrlVertStencils THEN ids ELSE <<>>,
        weights |-> IF genCtrlVertStencils THEN zeros ELSE <<>>,
        duWeights |-> <<>>, dvWeights |-> <<>>,
        indices |-> IF genCtrlVertStencils THEN ids ELSE <<>>,
        sizes |-> IF genCtrlVertStencils THEN ones ELSE <<>>,
        size |-> IF genCtrlVertStencils THEN coarseVerts ELSE 0,
        lastOffset |-> IF genCtrlVertStencils THEN coarseVerts - 1 ELSE 0,
        ub |-> FALSE, assertFailed |-> FALSE]

\* Mutant of WeightTable: _lastOffset = _size, one past the last control
\* vertex stencil.
WeightTable_OffsetAtSize(coarseVerts, genCtrlVertStencils, compact) ==
    LET ids == [i \in 1..coarseVerts |-> i - 1]
        ones == [i \in 1..coarseVerts |-> 1]
    IN [coarseVertCount |-> coarseVerts, compactWeights |-> compact,
        dests |-> IF genCtrlVertStencils THEN ids ELSE <<>>,
        sources |-> IF genCtrlVertStencils THEN ids ELSE <<>>,
        weights |-> IF genCtrlVertStencils THEN ones ELSE <<>>,
        duWeights |-> <<>>, dvWeights |-> <<>>,
        indices |-> IF genCtrlVertStencils THEN ids ELSE <<>>,
        sizes |-> IF genCtrlVertStencils THEN ones ELSE <<>>,
        size |-> IF genCtrlVertStencils THEN coarseVerts ELSE 0,
        lastOffset |-> IF genCtrlVertStencils THEN coarseVerts ELSE 0,
        ub |-> FALSE, assertFailed |-> FALSE]

\* WeightTable::WeightTable(coarseVerts, genCtrlVertStencils, compactWeights).
\* reserve() changes no size and is left out.  _duWeights and _dvWeights are
\* not resized.
WeightTable(coarseVerts, genCtrlVertStencils, compact) ==
    LET ids == [i \in 1..coarseVerts |-> i - 1]
        ones == [i \in 1..coarseVerts |-> 1]
    IN IF ~genCtrlVertStencils
       THEN [coarseVertCount |-> coarseVerts, compactWeights |-> compact,
             dests |-> <<>>, sources |-> <<>>, weights |-> <<>>,
             duWeights |-> <<>>, dvWeights |-> <<>>,
             indices |-> <<>>, sizes |-> <<>>,
             size |-> 0, lastOffset |-> 0,
             ub |-> FALSE, assertFailed |-> FALSE]
       ELSE [coarseVertCount |-> coarseVerts, compactWeights |-> compact,
             dests |-> ids, sources |-> ids, weights |-> ones,
             duWeights |-> <<>>, dvWeights |-> <<>>,
             indices |-> ids, sizes |-> ones,
             size |-> coarseVerts, lastOffset |-> coarseVerts - 1,
             ub |-> FALSE, assertFailed |-> FALSE]

\* Whether add() starts a new stencil: _dests.empty() or dst != _dests.back().
OpensStencil(t, dst) == t.dests = <<>> \/ dst # t.dests[Len(t.dests)]

\* Mutant of add: a new stencil does not move _lastOffset.
add_StaleOffset(t, src, dst, weight, acc) ==
    LET n == IF dst + 1 > Len(t.indices) THEN dst + 1 ELSE Len(t.indices)
        t1 == IF OpensStencil(t, dst)
              THEN [t EXCEPT
                      !.indices = [Resize(t.indices, n) EXCEPT ![dst + 1] = Len(t.sources)],
                      !.sizes = [Resize(t.sizes, n) EXCEPT ![dst + 1] = 0]]
              ELSE t
        t2 == [t1 EXCEPT !.size = @ + 1,
                         !.sizes[dst + 1] = @ + 1,
                         !.dests = Append(@, dst),
                         !.sources = Append(@, src)]
    IN PushBack(acc, t2, weight)

\* Mutant of add: a new stencil does not record its offset in _indices[dst].
add_NoIndexReset(t, src, dst, weight, acc) ==
    LET n == IF dst + 1 > Len(t.indices) THEN dst + 1 ELSE Len(t.indices)
        t1 == IF OpensStencil(t, dst)
              THEN [t EXCEPT
                      !.indices = Resize(t.indices, n),
                      !.sizes = [Resize(t.sizes, n) EXCEPT ![dst + 1] = 0],
                      !.lastOffset = Len(t.sources)]
              ELSE t
        t2 == [t1 EXCEPT !.size = @ + 1,
                         !.sizes[dst + 1] = @ + 1,
                         !.dests = Append(@, dst),
                         !.sources = Append(@, src)]
    IN PushBack(acc, t2, weight)

\* Mutant of add: a new stencil does not restart _sizes[dst] from 0.
add_NoSizeReset(t, src, dst, weight, acc) ==
    LET n == IF dst + 1 > Len(t.indices) THEN dst + 1 ELSE Len(t.indices)
        t1 == IF OpensStencil(t, dst)
              THEN [t EXCEPT
                      !.indices = [Resize(t.indices, n) EXCEPT ![dst + 1] = Len(t.sources)],
                      !.sizes = Resize(t.sizes, n),
                      !.lastOffset = Len(t.sources)]
              ELSE t
        t2 == [t1 EXCEPT !.size = @ + 1,
                         !.sizes[dst + 1] = @ + 1,
                         !.dests = Append(@, dst),
                         !.sources = Append(@, src)]
    IN PushBack(acc, t2, weight)

\* Mutant of add: the size of the stencil is not incremented.
add_NoSizeIncrement(t, src, dst, weight, acc) ==
    LET n == IF dst + 1 > Len(t.indices) THEN dst + 1 ELSE Len(t.indices)
        t1 == IF OpensStencil(t, dst)
              THEN [t EXCEPT
                      !.indices = [Resize(t.indices, n) EXCEPT ![dst + 1] = Len(t.sources)],
                      !.sizes = [Resize(t.sizes, n) EXCEPT ![dst + 1] = 0],
                      !.lastOffset = Len(t.sources)]
              ELSE t
        t2 == [t1 EXCEPT !.size = @ + 1,
                         !.dests = Append(@, dst),
                         !.sources = Append(@, src)]
    IN PushBack(acc, t2, weight)

\* Mutant of add: the cached _size is not incremented.
add_NoCount(t, src, dst, weight, acc) ==
    LET n == IF dst + 1 > Len(t.indices) THEN dst + 1 ELSE Len(t.indices)
        t1 == IF OpensStencil(t, dst)
              THEN [t EXCEPT
                      !.indices = [Resize(t.indices, n) EXCEPT ![dst + 1] = Len(t.sources)],
                      !.sizes = [Resize(t.sizes, n) EXCEPT ![dst + 1] = 0],
                      !.lastOffset = Len(t.sources)]
              ELSE t
        t2 == [t1 EXCEPT !.sizes[dst + 1] = @ + 1,
                         !.dests = Append(@, dst),
                         !.sources = Append(@, src)]
    IN PushBack(acc, t2, weight)

\* WeightTable::add: open a stencil for dst when dst is not the destination
\* of the last slot, then append one slot.
add(t, src, dst, weight, acc) ==
    LET n == IF dst + 1 > Len(t.indices) THEN dst + 1 ELSE Len(t.indices)
        t1 == IF OpensStencil(t, dst)
              THEN [t EXCEPT
                      !.indices = [Resize(t.indices, n) EXCEPT ![dst + 1] = Len(t.sources)],
                      !.sizes = [Resize(t.sizes, n) EXCEPT ![dst + 1] = 0],
                      !.lastOffset = Len(t.sources)]
              ELSE t
        t2 == [t1 EXCEPT !.size = @ + 1,
                         !.sizes[dst + 1] = @ + 1,
                         !.dests = Append(@, dst),
                         !.sources = Append(@, src)]
    IN PushBack(acc, t2, weight)

\* Mutant of MergeHits: the scan starts one slot after lastOffset.
MergeHits_SkipFirst(t, src, dst, offset, tableSize) ==
    IF t.compactWeights /\ t.dests # <<>> /\ At(t.dests, offset) = dst
    THEN {i \in (offset + 1)..(tableSize - 1) : At(t.sources, i) = src}
    ELSE {}

\* Mutant of MergeHits: _compactWeights is not consulted.
MergeHits_AlwaysCompact(t, src, dst, offset, tableSize) ==
    IF t.dests # <<>> /\ At(t.dests, offset) = dst
    THEN {i \in offset..(tableSize - 1) : At(t.sources, i) = src}
    ELSE {}

\* Mutant of MergeHits: the scan starts at slot 0 instead of lastOffset.
MergeHits_ScanFromZero(t, src, dst, offset, tableSize) ==
    IF t.compactWeights /\ t.dests # <<>> /\ At(t.dests, offset) = dst
    THEN {i \in 0..(tableSize - 1) : At(t.sources, i) = src}
    ELSE {}

\* The slots the compaction scan of merge() visits that hold src.
MergeHits(t, src, dst, offset, tableSize) ==
    IF t.compactWeights /\ t.dests # <<>> /\ At(t.dests, offset) = dst
    THEN {i \in offset..(tableSize - 1) : At(t.sources, i) = src}
    ELSE {}

\* Mutant of merge: weightFactor is not multiplied in.
merge_NoFactor(t, src, dst, weight, weightFactor, offset, tableSize, acc) ==
    LET hits == MergeHits(t, src, dst, offset, tableSize)
    IN IF hits # {}
       THEN AccAdd(acc, t, Min(hits), weight)
       ELSE add(t, src, dst, weight, acc)

\* WeightTable::merge: accumulate into the first slot of the current stencil
\* that holds src, else add a slot.
merge(t, src, dst, weight, weightFactor, offset, tableSize, acc) ==
    LET hits == MergeHits(t, src, dst, offset, tableSize)
    IN IF hits # {}
       THEN AccAdd(acc, t, Min(hits), Mul(acc, weight, weightFactor))
       ELSE add(t, src, dst, Mul(acc, weight, weightFactor), acc)

RECURSIVE Expand_NoWeight(_, _, _, _, _, _, _)
\* Mutant of Expand: the call's weight is not passed to merge as the factor.
Expand_NoWeight(t, i, end, dest, weight, acc, g) ==
    IF i >= end
    THEN t
    ELSE LET t0 == [t EXCEPT
                      !.assertFailed = @ \/ ~(At(t.sources, i) < t.coarseVertCount),
                      !.ub = @ \/ AccGetUndefined(acc, t, i)]
             t1 == merge(t0, At(t.sources, i), dest, AccGet(acc, t, i, g), One(acc),
                         t0.lastOffset, t0.size, acc)
         IN Expand_NoWeight(t1, i + 1, end, dest, weight, acc, g)

\* The expansion loop of AddWithWeight, from slot i to slot end - 1: the
\* assertion, then merge with the members _lastOffset and _size as they are
\* at that iteration.
RECURSIVE Expand(_, _, _, _, _, _, _)
Expand(t, i, end, dest, weight, acc, g) ==
    IF i >= end
    THEN t
    ELSE LET t0 == [t EXCEPT
                      !.assertFailed = @ \/ ~(At(t.sources, i) < t.coarseVertCount),
                      !.ub = @ \/ AccGetUndefined(acc, t, i)]
             t1 == merge(t0, At(t.sources, i), dest, AccGet(acc, t, i, g), weight,
                         t0.lastOffset, t0.size, acc)
         IN Expand(t1, i + 1, end, dest, weight, acc, g)

\* Mutant of AddWithWeight: the coarse test is src <= _coarseVertCount.
AddWithWeight_OffByOne(t, src, dest, weight, acc, g) ==
    IF src <= t.coarseVertCount
    THEN merge(t, src, dest, weight, One(acc), t.lastOffset, t.size, acc)
    ELSE LET len == At(t.sizes, src)
             start == At(t.indices, src)
         IN Expand(t, start, start + len, dest, weight, acc, g)

\* WeightTable::AddWithWeight(src, dest, weight, weights).
AddWithWeight(t, src, dest, weight, acc, g) ==
    IF src < t.coarseVertCount
    THEN merge(t, src, dest, weight, One(acc), t.lastOffset, t.size, acc)
    ELSE LET len == At(t.sizes, src)
             start == At(t.indices, src)
         IN Expand(t, start, start + len, dest, weight, acc, g)

\* ------------------------------------------------------ StencilBuilder::Index

\* An external stencil: a sequence of [index, weight] entries.
RECURSIVE StencilLoop(_, _, _, _, _, _, _)
\* The loop of Index::AddWithWeight(Stencil const&, ...), from entry i on:
\* entries of weight 0 are skipped; factor is the call's weight (scalar) or
\* its PointDerivWeight(weight, du, dv).
StencilLoop(t, ext, i, dst, factor, acc, g) ==
    IF i > Len(ext)
    THEN t
    ELSE LET w == ext[i].weight
             wgt == IF acc = "scalar" THEN factor * w
                    ELSE PointDerivMul(factor, PointDerivWeightOf(w))
         IN IF w = 0
            THEN StencilLoop(t, ext, i + 1, dst, factor, acc, g)
            ELSE StencilLoop(AddWithWeight(t, ext[i].index, dst, wgt, acc, g),
                             ext, i + 1, dst, factor, acc, g)

\* Mutant of IndexAddWithWeight: no test of weight == 0.
IndexAddWithWeight_NoZeroTest(t, src, dst, weight) ==
    AddWithWeight(t, src, dst, weight, "scalar", 0)

\* Index::AddWithWeight(Index const & src, float weight)
IndexAddWithWeight(t, src, dst, weight) ==
    IF weight = 0 THEN t
    ELSE AddWithWeight(t, src, dst, weight, "scalar", 0)

\* Index::AddWithWeight(Stencil const& src, float weight)
StencilAddWithWeight(t, ext, dst, weight) ==
    IF weight = 0 THEN t
    ELSE StencilLoop(t, ext, 1, dst, weight, "scalar", 0)

\* Index::AddWithWeight(Stencil const& src, float weight, float du, float dv)
DerivAddWithWeight(t, ext, dst, weight, du, dv, g) ==
    IF weight = 0 /\ du = 0 /\ dv = 0 THEN t
    ELSE StencilLoop(t, ext, 1, dst, PointDerivWeight(weight, du, dv), "deriv", g)

\* ----------------------------------------------------- StencilBuilder queries

\* size_t is unsigned: sizes.size() - 1 wraps around when sizes is empty.
\* The width is scaled down from 64 bits.
SizeTModulus == 65536

\* Values an undefined read may produce.
Garbage == {-1, 0, 1}

\* StencilBuilder::GetNumVertsInStencil(stencilIndex): the value returned and
\* whether _sizes was read outside its elements (g is what that read gives).
GetNumVertsInStencil(t, stencilIndex, g) ==
    IF stencilIndex > (Len(t.sizes) - 1) % SizeTModulus
    THEN [res |-> 0, ub |-> FALSE]
    ELSE IF stencilIndex < Len(t.sizes)
         THEN [res |-> At(t.sizes, stencilIndex), ub |-> FALSE]
         ELSE [res |-> g, ub |-> TRUE]

\* StencilBuilder::GetNumVerticesTotal()
GetNumVerticesTotal(t) == Len(t.weights)

\* ------------------------------------------------------------------ inputs

CoarseVerts == 0..(NumCoarse - 1)
ExtEntries == [index : CoarseVerts, weight : ExtWeights]
\* External stencils: coarse-only recipes of 1..MaxExtLen entries.
ExtStencils == UNION {[1..n -> ExtEntries] : n \in 1..MaxExtLen}

\* A call as recorded in last and prev; pre is the table the call started on.
Call(op, src, ext, dst, w, du, dv, res) ==
    [op |-> op, src |-> src, ext |-> ext, dst |-> dst,
     w |-> w, du |-> du, dv |-> dv, res |-> res, pre |-> Table]

NoCall ==
    [op |-> "none", src |-> -1, ext |-> <<>>, dst |-> -1,
     w |-> 0, du |-> 0, dv |-> 0, res |-> 0, pre |-> <<>>]

\* The entries of an external stencil that are not skipped, as
\* [src, w] contributions scaled by the call's weight.
RECURSIVE ExtContribs(_, _)
ExtContribs(ext, weight) ==
    IF ext = <<>>
    THEN <<>>
    ELSE LET rest == ExtContribs(Tail(ext), weight)
         IN IF Head(ext).weight = 0
            THEN rest
            ELSE <<[src |-> Head(ext).index, w |-> weight * Head(ext).weight]>> \o rest

\* The scalar contributions AddWithWeight(src, dest, w) a recorded call made.
Contribs(c) ==
    IF c.op = "index" /\ c.w # 0 THEN <<[src |-> c.src, w |-> c.w]>>
    ELSE IF c.op = "stencil" /\ c.w # 0 THEN ExtContribs(c.ext, c.w)
    ELSE <<>>

\* ------------------------------------------------------------------- Init

Init ==
    /\ coarseVertCount = NumCoarse
    /\ compactWeights \in BOOLEAN
    /\ genCtrl \in BOOLEAN
    /\ LET t == WeightTable(coarseVertCount, genCtrl, compactWeights)
       IN /\ dests = t.dests
          /\ sources = t.sources
          /\ weights = t.weights
          /\ duWeights = t.duWeights
          /\ dvWeights = t.dvWeights
          /\ indices = t.indices
          /\ sizes = t.sizes
          /\ size = t.size
          /\ lastOffset = t.lastOffset
          /\ ub = t.ub
          /\ assertFailed = t.assertFailed
    /\ ncalls = 0
    /\ last = NoCall
    /\ prev = NoCall
    /\ cur = -1
    /\ built = {}
    /\ expect = [d \in Verts |-> [c \in CoarseVerts |-> 0]]
    /\ depth = [d \in Verts |-> 0]

\* The table after a call, and the record of the call.
Step(t, c) ==
    /\ dests' = t.dests
    /\ sources' = t.sources
    /\ weights' = t.weights
    /\ duWeights' = t.duWeights
    /\ dvWeights' = t.dvWeights
    /\ indices' = t.indices
    /\ sizes' = t.sizes
    /\ size' = t.size
    /\ lastOffset' = t.lastOffset
    /\ ub' = t.ub
    /\ assertFailed' = t.assertFailed
    /\ ncalls' = ncalls + 1
    /\ last' = c
    /\ prev' = last
    /\ UNCHANGED ctorVars

\* The program goes on only while its behaviour is defined.
Running == ~ub /\ ~assertFailed

\* A source handle names a coarse vertex or a vertex inside _sizes / _indices.
SrcInTable(src) == src < coarseVertCount \/ src < Len(sizes)

\* ------------------------------------------------- Spec: any order of calls

CallIndex ==
    \E src \in FreeVerts, dst \in FreeVerts, w \in Weights :
        /\ Running /\ ncalls < MaxCalls
        /\ SrcInTable(src)
        /\ Step(IndexAddWithWeight(Table, src, dst, w),
                Call("index", src, <<>>, dst, w, 0, 0, 0))
        /\ UNCHANGED seqVars

CallQuery ==
    \E i \in 0..(MaxFreeVert + 1), g \in Garbage :
        LET r == GetNumVertsInStencil(Table, i, g)
        IN /\ Running /\ ncalls < MaxCalls
           /\ Step([Table EXCEPT !.ub = r.ub],
                   Call("query", i, <<>>, -1, 0, 0, 0, r.res))
           /\ UNCHANGED seqVars

Next == CallIndex \/ CallQuery

Spec == Init /\ [][Next]_vars

\* -------------------------------------- SeqSpec: sequential by destination

Max(a, b) == IF a >= b THEN a ELSE b

\* The stencil of src as the caller means it: {src: 1} for a coarse vertex,
\* else the expanded sum recorded when src was built.
SrcMap(src) ==
    IF src < coarseVertCount
    THEN [c \in CoarseVerts |-> IF c = src THEN 1 ELSE 0]
    ELSE expect[src]

RECURSIVE SumContribs(_, _)
\* The weight the contributions cs give to coarse vertex c.
SumContribs(cs, c) ==
    IF cs = <<>> THEN 0
    ELSE Head(cs).w * SrcMap(Head(cs).src)[c] + SumContribs(Tail(cs), c)

RECURSIVE DepthOf(_)
\* Levels of indirection the contributions cs resolve.
DepthOf(cs) ==
    IF cs = <<>> THEN 0
    ELSE Max(IF Head(cs).src < coarseVertCount THEN 1 ELSE depth[Head(cs).src] + 1,
             DepthOf(Tail(cs)))

\* The caller's contract: the contributions of a destination are consecutive
\* and a destination is built once; control vertices that have their trivial
\* stencil are not destinations; a non-coarse source is a finished stencil.
DestInOrder(dst) ==
    dst = cur \/ (dst \notin built /\ (genCtrl => dst >= coarseVertCount))

SrcFinished(src, dst) ==
    src < coarseVertCount \/ (src \in built /\ src # dst)

\* What the caller's bookkeeping becomes after a call that made the
\* contributions cs to dst.
Track(cs, dst) ==
    IF cs = <<>>
    THEN UNCHANGED seqVars
    ELSE /\ cur' = dst
         /\ built' = built \cup {dst}
         /\ expect' = [expect EXCEPT
                         ![dst] = [c \in CoarseVerts |-> @[c] + SumContribs(cs, c)]]
         /\ depth' = [depth EXCEPT ![dst] = Max(@, DepthOf(cs))]

SeqIndex ==
    \E src \in Verts, dst \in Verts, w \in Weights \ {0} :
        LET c == Call("index", src, <<>>, dst, w, 0, 0, 0)
        IN /\ Running /\ ncalls < MaxSeqCalls
           /\ DestInOrder(dst) /\ SrcFinished(src, dst)
           /\ Step(IndexAddWithWeight(Table, src, dst, w), c)
           /\ Track(Contribs(c), dst)

SeqNext == SeqIndex

SeqSpec == Init /\ [][SeqNext]_vars

\* ------------------------------- FacadeSpec: the three Index entry points

FacadeIndex ==
    \E src \in FreeVerts, dst \in FreeVerts, w \in Weights :
        /\ Running /\ ncalls < MaxFacadeCalls
        /\ SrcInTable(src)
        /\ Step(IndexAddWithWeight(Table, src, dst, w),
                Call("index", src, <<>>, dst, w, 0, 0, 0))
        /\ UNCHANGED seqVars

FacadeStencil ==
    \E ext \in ExtStencils, dst \in FreeVerts, w \in Weights :
        /\ Running /\ ncalls < MaxFacadeCalls
        /\ Step(StencilAddWithWeight(Table, ext, dst, w),
                Call("stencil", -1, ext, dst, w, 0, 0, 0))
        /\ UNCHANGED seqVars

FacadeDeriv ==
    \E ext \in ExtStencils, dst \in FreeVerts, w \in DerivWeights,
       du \in DerivWeights, dv \in DerivWeights, g \in Garbage :
        /\ Running /\ ncalls < MaxFacadeCalls
        /\ Step(DerivAddWithWeight(Table, ext, dst, w, du, dv, g),
                Call("deriv", -1, ext, dst, w, du, dv, 0))
        /\ UNCHANGED seqVars

FacadeNext == FacadeIndex \/ FacadeStencil \/ FacadeDeriv

FacadeSpec == Init /\ [][FacadeNext]_vars

\* ------------------- DerivSpec: the derivative entry point and nothing else

\* A table whose contributions are all made through the
\* PointDerivAccumulator, as a limit-stencil factory makes them.
CallDeriv ==
    \E ext \in ExtStencils, dst \in FreeVerts, w \in DerivWeights,
       du \in DerivWeights, dv \in DerivWeights, g \in Garbage :
        /\ Running /\ ncalls < MaxDerivCalls
        /\ Step(DerivAddWithWeight(Table, ext, dst, w, du, dv, g),
                Call("deriv", -1, ext, dst, w, du, dv, 0))
        /\ UNCHANGED seqVars

DerivNext == CallDeriv

DerivSpec == Init /\ [][DerivNext]_vars

\* ------------------------------------------------------ reading the table

\* The flat indices of the stencil of d in table t:
\* offsets[d] .. offsets[d] + sizes[d] - 1 (empty when d is outside sizes).
StencilRange(t, d) ==
    IF d >= 0 /\ d < Len(t.sizes)
    THEN At(t.indices, d)..(At(t.indices, d) + At(t.sizes, d) - 1)
    ELSE {}

\* The flat indices of the stencil of d that hold source s.
EntriesOf(t, d, s) == {i \in StencilRange(t, d) : At(t.sources, i) = s}

RECURSIVE SumWeights(_, _)
SumWeights(t, S) ==
    IF S = {} THEN 0
    ELSE LET i == Min(S) IN At(t.weights, i) + SumWeights(t, S \ {i})

\* The stencil of d read as a map coarse source -> summed weight.
StencilMap(t, d) == [c \in CoarseVerts |-> SumWeights(t, EntriesOf(t, d, c))]

\* The destination of the last slot of t, -1 when t has no slot.
BackDest(t) == IF t.dests = <<>> THEN -1 ELSE t.dests[Len(t.dests)]

\* A recorded call that contributed one coarse source through
\* Index::AddWithWeight(Index, weight).
CoarseContrib(c) == c.op = "index" /\ c.w # 0 /\ c.src < coarseVertCount

\* Before call c ran, the stencil being built for c.dst held no entry for
\* c.src (c.dst was not the destination being built, or had no such entry).
FreshFor(c) ==
    BackDest(c.pre) # c.dst \/ EntriesOf(c.pre, c.dst, c.src) = {}

\* ------------------------------------------------------------------ claims

\* C1 (weight conservation).  Under the sequential-by-destination order,
\* with non-coarse sources used only once finished, the stencil of every
\* destination built by AddWithWeight calls, read as a map coarse source ->
\* summed weight over offsets[d] .. offsets[d] + sizes[d], equals the sum over
\* the calls of w times the stencil map of src ({src: 1} for a coarse src).
\* Both values of compactWeights are initial states.
C1_WeightConservation ==
    \A d \in built : StencilMap(Table, d) = expect[d]

\* A destination built through a non-coarse source A = {c0: 1, c1: 2} with
\* weight 2, giving {c0: 2, c1: 4}.
C1_Witness ==
    \E d \in built :
        /\ depth[d] >= 2
        /\ expect[d][0] = 2 /\ expect[d][1] = 4
        /\ StencilMap(Table, d) = expect[d]

\* C2 (coarse-only closure).  Every entry of every stencil range is a coarse
\* vertex, and the assertion of the expansion loop has never failed.
C2_CoarseOnly ==
    /\ ~assertFailed
    /\ \A d \in 0..(Len(sizes) - 1) :
           \A i \in StencilRange(Table, d) : At(sources, i) < coarseVertCount

\* A stencil resolved through two levels of non-coarse sources.
C2_Witness ==
    \E d \in built : depth[d] >= 3 /\ At(sizes, d) > 0

\* C9 (trivial control stencils).  Right after construction: with
\* genCtrlVertStencils, offsets[i] = i, sizes[i] = 1, sources[i] = i and
\* weights[i] = 1 for every i < coarseVertCount and the total is
\* coarseVertCount; without it offsets, sizes, sources and weights are empty.
C9_TrivialControlStencils ==
    ncalls = 0 =>
        IF genCtrl
        THEN /\ Len(indices) = coarseVertCount /\ Len(sizes) = coarseVertCount
             /\ Len(sources) = coarseVertCount /\ Len(weights) = coarseVertCount
             /\ \A i \in 0..(coarseVertCount - 1) :
                    /\ At(indices, i) = i /\ At(sizes, i) = 1
                    /\ At(sources, i) = i /\ At(weights, i) = 1
             /\ GetNumVerticesTotal(Table) = coarseVertCount
        ELSE /\ indices = <<>> /\ sizes = <<>>
             /\ sources = <<>> /\ weights = <<>>

C9_Witness ==
    ncalls = 0 /\ genCtrl /\ coarseVertCount >= 2 /\ At(sources, 1) = 1

\* The last two calls each contributed the same coarse source to the same
\* destination, one right after the other.
SameTwice ==
    /\ CoarseContrib(prev) /\ CoarseContrib(last)
    /\ prev.src = last.src /\ prev.dst = last.dst

\* C3 (compaction).  With compactWeights, contributing a coarse source s
\* twice in a row to destination d with weights w1 and w2, s having no entry
\* in the stencil being built for d before, leaves exactly one entry for s in
\* d's stencil, of weight w1 + w2; the second call changes neither sizes[d]
\* nor the total contribution count.  Both values of genCtrlVertStencils are
\* initial states.
C3_CompactTwice ==
    (compactWeights /\ SameTwice /\ FreshFor(prev)) =>
        LET E == EntriesOf(Table, last.dst, last.src)
        IN /\ Cardinality(E) = 1
           /\ \A i \in E : At(weights, i) = prev.w + last.w
           /\ At(sizes, last.dst) = At(last.pre.sizes, last.dst)
           /\ GetNumVerticesTotal(Table) = GetNumVerticesTotal(last.pre)
           /\ size = last.pre.size
           /\ sources = last.pre.sources

C3_Witness ==
    /\ compactWeights /\ SameTwice /\ FreshFor(prev)
    /\ prev.w = 1 /\ last.w = 2
    /\ \E i \in EntriesOf(Table, last.dst, last.src) : At(weights, i) = 3

\* C4 (no duplicates).  With compactWeights, in every reachable state, no two
\* entries of the range of a destination with sizes[d] > 0 hold the same
\* source.
C4_NoDuplicates ==
    compactWeights =>
        \A d \in 0..(Len(sizes) - 1) :
            At(sizes, d) > 0 =>
                \A i, j \in StencilRange(Table, d) :
                    i # j => At(sources, i) # At(sources, j)

\* A stencil of two entries, one of which the last call accumulated into.
C4_Witness ==
    /\ compactWeights /\ CoarseContrib(last)
    /\ BackDest(last.pre) = last.dst
    /\ EntriesOf(last.pre, last.dst, last.src) # {}
    /\ At(sizes, last.dst) = 2

\* C5 (no compaction).  Without compactWeights every merged (source, weight)
\* pair appends one slot: a call contributing a coarse source appends one, a
\* call expanding a non-coarse source appends one per entry of that source;
\* contributing a coarse source s twice in a row to d with w1 and w2 leaves
\* the two last slots as entries (s, w1) and (s, w2) of d's stencil, with
\* sizes[d] and the total contribution count grown by 2.
C5_AppendTwice ==
    /\ (~compactWeights /\ last.op = "index" /\ last.w # 0) =>
           Len(sources) = Len(last.pre.sources)
                          + (IF last.src < coarseVertCount THEN 1
                             ELSE At(last.pre.sizes, last.src))
    /\ (~compactWeights /\ SameTwice) =>
           LET n == Len(sources)
               d == last.dst
               before == IF OpensStencil(prev.pre, d) THEN 0
                         ELSE At(prev.pre.sizes, d)
           IN /\ n >= 2
              /\ {n - 2, n - 1} \subseteq EntriesOf(Table, d, last.src)
              /\ At(weights, n - 2) = prev.w /\ At(weights, n - 1) = last.w
              /\ At(sizes, d) = before + 2
              /\ size = prev.pre.size + 2
              /\ GetNumVerticesTotal(Table) = GetNumVerticesTotal(prev.pre) + 2

C5_Witness ==
    /\ ~compactWeights /\ SameTwice
    /\ prev.w = 1 /\ last.w = 2
    /\ Cardinality(EntriesOf(Table, last.dst, last.src)) = 2

\* The contributions to last.dst were interrupted by a contribution to
\* another destination and then resumed: before prev the stencil being built
\* was that of last.dst and held last.src, prev appended slots for another
\* destination, and last contributes the coarse source last.src again.  The
\* destination is not a control vertex holding a constructor-made stencil.
Interrupted ==
    /\ compactWeights /\ CoarseContrib(last)
    /\ genCtrl => last.dst >= coarseVertCount
    /\ prev.op = "index" /\ prev.dst # last.dst
    /\ Len(last.pre.dests) > Len(prev.pre.dests)
    /\ BackDest(prev.pre) = last.dst
    /\ EntriesOf(prev.pre, last.dst, last.src) # {}

\* The slots recorded for destination d that hold source s, in or out of d's
\* range.
SlotsOf(t, d, s) ==
    {i \in 0..(Len(t.dests) - 1) : At(t.dests, i) = d /\ At(t.sources, i) = s}

\* C6 as stated: after the interruption the source appears as two separate
\* entries of the stencil of d (the range offsets[d] .. offsets[d] + sizes[d]),
\* and no error or assertion is raised.
C6_Original ==
    Interrupted =>
        /\ ~ub /\ ~assertFailed
        /\ Cardinality(EntriesOf(Table, last.dst, last.src)) >= 2

\* C6 as amended.  No error or assertion is raised; the resumed contribution
\* opens a new stencil for d, so the flat storage holds two or more
\* uncombined slots recorded for (d, s), of which only the one appended after
\* the interruption lies in d's range: d's stencil has exactly one entry for
\* s, with the weight contributed after the interruption only.
C6_Amended ==
    Interrupted =>
        LET d == last.dst
            s == last.src
            E == EntriesOf(Table, d, s)
        IN /\ ~ub /\ ~assertFailed
           /\ E = {Len(sources) - 1}
           /\ At(weights, Len(sources) - 1) = last.w
           /\ At(indices, d) = Len(last.pre.sources) /\ At(sizes, d) = 1
           /\ Cardinality(SlotsOf(Table, d, s)) >= 2
           /\ \A i \in EntriesOf(prev.pre, d, s) :
                  /\ i \notin StencilRange(Table, d)
                  /\ At(dests, i) = d /\ At(sources, i) = s

C6_Witness ==
    /\ Interrupted /\ ~genCtrl
    /\ Cardinality(SlotsOf(Table, last.dst, last.src)) = 2
    /\ Cardinality(EntriesOf(Table, last.dst, last.src)) = 1

\* The last call was one of the three Index entry points with weight 0 (and
\* du = dv = 0 for the derivative one).
ZeroCall(c) ==
    \/ c.op = "index" /\ c.w = 0
    \/ c.op = "stencil" /\ c.w = 0
    \/ c.op = "deriv" /\ c.w = 0 /\ c.du = 0 /\ c.dv = 0

\* C7 (zero weight).  A call of Index::AddWithWeight with weight 0 (and
\* du = dv = 0) leaves offsets, sizes, sources, weights, duWeights, dvWeights,
\* the contribution count and the cursor as they were.
C7_ZeroWeightNoOp ==
    ZeroCall(last) =>
        /\ Table = last.pre
        /\ GetNumVerticesTotal(Table) = GetNumVerticesTotal(last.pre)

\* Two zero-weight calls, through two entry points, on a table that holds
\* the stencil of a refined vertex.
C7_Witness ==
    /\ ZeroCall(last) /\ last.op = "deriv"
    /\ ZeroCall(prev) /\ prev.op = "index"
    /\ sources # <<>>

\* C8 (query safety).  GetNumVertsInStencil(i) reads nothing outside sizes,
\* returns 0 for i at or beyond the length of sizes and sizes[i] otherwise.
C8_QuerySafety ==
    last.op = "query" =>
        /\ ~ub
        /\ (last.src >= Len(sizes) => last.res = 0)
        /\ (last.src < Len(sizes) => last.res = At(sizes, last.src))

\* C10 (derivative channels).  With compactWeights, for either value of
\* genCtrlVertStencils: contributing the external stencil {s: 1} to d through
\* the derivative entry point with (0, 1, 0) and then (1, 0, 0), s having no
\* entry in the stencil being built for d before and d being a refined
\* vertex when the control vertices have their stencils, leaves one entry for
\* s in d's stencil, and weights, duWeights and dvWeights hold (1, 1, 0) at
\* its flat index.
OneEntryDeriv(c, w, du, dv) ==
    /\ c.op = "deriv" /\ Len(c.ext) = 1 /\ c.ext[1].weight = 1
    /\ c.w = w /\ c.du = du /\ c.dv = dv

C10_DerivChannels ==
    (/\ compactWeights
     /\ OneEntryDeriv(prev, 0, 1, 0) /\ OneEntryDeriv(last, 1, 0, 0)
     /\ prev.ext = last.ext /\ prev.dst = last.dst
     /\ genCtrl => last.dst >= coarseVertCount
     /\ \/ BackDest(prev.pre) # prev.dst
        \/ EntriesOf(prev.pre, prev.dst, prev.ext[1].index) = {}) =>
        LET E == EntriesOf(Table, last.dst, last.ext[1].index)
        IN /\ Cardinality(E) = 1
           /\ \A i \in E :
                  /\ At(weights, i) = 1
                  /\ i < Len(duWeights) /\ At(duWeights, i) = 1
                  /\ i < Len(dvWeights) /\ At(dvWeights, i) = 0

\* C11 (parallel columns).  In every state that a table whose contributions
\* are all made through the derivative entry point reaches by appending one,
\* duWeights and dvWeights have the length of sources and of weights, for
\* every combination of the constructor flags (the control-vertex stencils
\* of the constructor included).
C11_ParallelColumns ==
    (/\ last.op = "deriv" /\ Len(sources) > Len(last.pre.sources)
     /\ genCtrl => last.dst >= coarseVertCount) =>
        /\ Len(weights) = Len(sources)
        /\ Len(duWeights) = Len(sources)
        /\ Len(dvWeights) = Len(sources)

\* C12 (cursor).  Whenever the table holds a contribution, _lastOffset is
\* offsets[d] for d the destination of the last slot, and every slot from
\* _lastOffset to the end of the flat storage is recorded for d; after
\* construction with genCtrlVertStencils d is coarseVertCount - 1.
C12_CursorInvariant ==
    /\ dests # <<>> =>
           LET d == BackDest(Table)
           IN /\ d >= 0 /\ d < Len(indices)
              /\ lastOffset = At(indices, d)
              /\ lastOffset >= 0 /\ lastOffset < Len(dests)
              /\ \A i \in lastOffset..(Len(dests) - 1) : At(dests, i) = d
    /\ (ncalls = 0 /\ genCtrl /\ coarseVertCount > 0) =>
           /\ BackDest(Table) = coarseVertCount - 1
           /\ lastOffset = coarseVertCount - 1

\* The cursor after the control vertex stencils, two appended slots and an
\* accumulation into the first of them.
C12_Witness ==
    /\ CoarseContrib(last) /\ Len(sources) = Len(last.pre.sources)
    /\ weights # last.pre.weights
    /\ lastOffset = coarseVertCount /\ Len(dests) = lastOffset + 2
    /\ At(sources, lastOffset) = last.src

\* No slot of t is recorded for src, and src is inside _sizes / _indices:
\* src was never a destination, its size is the 0 that resize() gave it.
NeverBuilt(t, src) ==
    /\ src < Len(t.sizes)
    /\ \A i \in 0..(Len(t.dests) - 1) : At(t.dests, i) # src

\* The stencil being built in t is that of src.
StillBuilt(t, src) == BackDest(t) = src

\* Call c used as src a non-coarse vertex whose stencil was not finished.
Unfinished(c) ==
    /\ c.op = "index" /\ c.w # 0 /\ c.src >= coarseVertCount
    /\ NeverBuilt(c.pre, c.src) \/ StillBuilt(c.pre, c.src)

\* C13 as stated: using as src a non-coarse vertex whose stencil is not
\* finished (never built but inside offsets / sizes, or still being built)
\* makes the check _sources[i] < _coarseVertCount of the expansion loop fail.
C13_Original ==
    Unfinished(last) => assertFailed

\* C13 as amended.  Such a call is not detected: the check holds on every
\* slot the loop visits, nothing fails, and every stored source stays a
\* coarse vertex.  A never-built src has size 0: the loop does not run and
\* the table is left as it was.  A src still being built contributes the
\* entries it holds at the call, scaled by the weight: to a new stencil of
\* dst, or on top of its own entries when dst is src.
C13_Amended ==
    Unfinished(last) =>
        LET src == last.src
            dst == last.dst
            old == StencilMap(last.pre, src)
        IN /\ ~assertFailed /\ ~ub
           /\ \A i \in 0..(Len(sources) - 1) : At(sources, i) < coarseVertCount
           /\ NeverBuilt(last.pre, src) => Table = last.pre
           /\ (StillBuilt(last.pre, src) /\ dst # src) =>
                  StencilMap(Table, dst) = [c \in CoarseVerts |-> last.w * old[c]]
           /\ (StillBuilt(last.pre, src) /\ dst = src) =>
                  StencilMap(Table, dst) = [c \in CoarseVerts |-> (1 + last.w) * old[c]]

\* A vertex still being built expanded with weight 2 into another
\* destination, then a never-built vertex used as src.
C13_Witness ==
    /\ Unfinished(prev) /\ StillBuilt(prev.pre, prev.src)
    /\ prev.dst # prev.src /\ prev.w = 2
    /\ Len(last.pre.sources) > Len(prev.pre.sources)
    /\ Unfinished(last) /\ NeverBuilt(last.pre, last.src)
    /\ Table = last.pre

\* Call c appended a contribution for a destination that was not the
\* destination of the last slot (or the table was empty).
Opened(c) ==
    /\ c.op = "index" /\ c.w # 0
    /\ OpensStencil(c.pre, c.dst)
    /\ Len(sources) > Len(c.pre.sources)

\* C14 (opening a stencil).  When a contribution for dst is appended and dst
\* is not the destination of the last slot, offsets and sizes are grown to
\* dst + 1 entries if shorter (new entries 0, the others as they were),
\* offsets[dst] is the contribution count before the append, sizes[dst]
\* restarts from 0 and counts the appended slots (1 for a coarse source).
\* When dst already had a stencil its earlier slots stay in the flat storage
\* as they were, outside the range of dst, so dst's stencil holds the new
\* contribution only.
C14_OpenStencil ==
    Opened(last) =>
        LET d == last.dst
            p == last.pre
            n0 == Len(p.sources)
            L == Max(d + 1, Len(p.indices))
        IN /\ At(sizes, d) = Len(sources) - n0
           /\ At(indices, d) = n0
           /\ lastOffset = n0
           /\ Len(indices) = L /\ Len(sizes) = L
           /\ \A e \in (0..(L - 1)) \ {d} :
                  /\ At(indices, e) = IF e < Len(p.indices) THEN At(p.indices, e) ELSE 0
                  /\ At(sizes, e) = IF e < Len(p.sizes) THEN At(p.sizes, e) ELSE 0
           /\ CoarseContrib(last) =>
                  /\ At(sizes, d) = 1
                  /\ At(dests, n0) = d /\ At(sources, n0) = last.src
                  /\ At(weights, n0) = last.w
                  /\ StencilMap(Table, d) =
                         [c \in CoarseVerts |-> IF c = last.src THEN last.w ELSE 0]
           /\ \A i \in 0..(n0 - 1) :
                  /\ At(dests, i) = At(p.dests, i)
                  /\ At(sources, i) = At(p.sources, i)
                  /\ At(weights, i) = At(p.weights, i)
                  /\ i \notin StencilRange(Table, d)

\* A destination that held the stencil {s: 2} is reopened after another
\* destination's slot with a contribution of 1 for s.
C14_Witness ==
    /\ Opened(last) /\ CoarseContrib(last) /\ ~genCtrl
    /\ SlotsOf(last.pre, last.dst, last.src) # {}
    /\ StencilMap(last.pre, last.dst)[last.src] = 2
    /\ last.w = 1
    /\ StencilMap(Table, last.dst)[last.src] = 1

\* Slot i holds the same source and weight as it held before the last call.
SlotKept(i) ==
    /\ At(sources, i) = At(last.pre.sources, i)
    /\ At(weights, i) = At(last.pre.weights, i)

\* C15 (finished stencils are immutable).  An AddWithWeight call with
\* destination dest modifies no sources or weights slot below the start of
\* the stencil being built when it began; under the sequential order every
\* destination d other than dest that already has a stencil keeps
\* offsets[d], sizes[d] and the source and weight entries of its range.
C15_FinishedImmutable ==
    last.op = "index" =>
        /\ \A i \in 0..(last.pre.lastOffset - 1) : SlotKept(i)
        /\ \A d \in 0..(Len(last.pre.sizes) - 1) :
               (d # last.dst /\ At(last.pre.sizes, d) > 0) =>
                   /\ At(indices, d) = At(last.pre.indices, d)
                   /\ At(sizes, d) = At(last.pre.sizes, d)
                   /\ \A i \in StencilRange(last.pre, d) : SlotKept(i)

\* The last call accumulated into the stencil being built a source that a
\* finished stencil of another refined vertex holds too.
C15_Witness ==
    /\ compactWeights /\ CoarseContrib(last)
    /\ Len(sources) = Len(last.pre.sources) /\ weights # last.pre.weights
    /\ \E d \in built \ {last.dst} :
           /\ EntriesOf(Table, d, last.src) # {}
           /\ \A i \in EntriesOf(Table, d, last.src) : SlotKept(i)

\* The destinations that have a stencil: sizes[d] > 0.
Live == {d \in 0..(Len(sizes) - 1) : At(sizes, d) > 0}

\* The flat indices of the storage.
Slots == 0..(Len(sources) - 1)

RECURSIVE SumSizes(_)
\* The sum of sizes[d] over the destinations below n.
SumSizes(n) == IF n = 0 THEN 0 ELSE At(sizes, n - 1) + SumSizes(n - 1)

\* C16 (range partition).  Under the sequential-by-destination order, in
\* every reachable state the ranges offsets[d] .. offsets[d] + sizes[d] of the
\* destinations with sizes[d] > 0 lie inside the flat storage, hold only
\* slots recorded for d, are pairwise disjoint and together cover every
\* slot; the sum of sizes equals GetNumVerticesTotal().
C16_RangePartition ==
    /\ \A d \in Live : StencilRange(Table, d) \subseteq Slots
    /\ \A d \in Live : \A i \in StencilRange(Table, d) : At(dests, i) = d
    /\ \A d, e \in Live :
           d # e => StencilRange(Table, d) \cap StencilRange(Table, e) = {}
    /\ UNION {StencilRange(Table, d) : d \in Live} = Slots
    /\ SumSizes(Len(sizes)) = GetNumVerticesTotal(Table)

\* Three refined destinations built in order, one of them with two entries,
\* on a table without control vertex stencils.
C16_Witness ==
    /\ ~genCtrl /\ Cardinality(Live) = 3 /\ Len(sources) = 4
    /\ \E d \in Live : At(sizes, d) = 2 /\ At(indices, d) = 1
    /\ SumSizes(Len(sizes)) = 4

\* Call c went through the derivative entry point with weight 0 and du or
\* dv not 0, on an external stencil of one entry of non-zero weight.
DerivOnlyCall(c) ==
    /\ c.op = "deriv" /\ c.w = 0 /\ (c.du # 0 \/ c.dv # 0)
    /\ Len(c.ext) = 1 /\ c.ext[1].weight # 0

\* Every contribution made before call c went through the derivative entry
\* point: c is the first call on the constructed table, or the second after
\* a derivative one.
DerivHistory(c, b) ==
    \/ b.op = "none"
    \/ /\ b.op = "deriv"
       /\ b.pre = WeightTable(coarseVertCount, genCtrl, compactWeights)

\* Call c went through an entry point taking an external stencil, was not
\* skipped for its own weights, and every entry of the stencil has weight 0.
ZeroEntriesCall(c) ==
    /\ c.op \in {"stencil", "deriv"} /\ ~ZeroCall(c)
    /\ \A k \in 1..Len(c.ext) : c.ext[k].weight = 0

\* C17 (derivative skip rule).  A derivative call with weight 0 and du or dv
\* not 0 on an external stencil with an entry (s, w), w not 0, is not
\* skipped: it adds (0, du * w, dv * w) for s, as a new slot of the
\* destination or, under compaction, into the slot the stencil being built
\* holds for s.  Entries of weight 0 of an external stencil create and change
\* no slot, in the scalar and in the derivative entry point.  The
\* destination is a refined vertex when the control vertices have stencils.
C17_DerivSkipRule ==
    /\ (/\ DerivOnlyCall(last) /\ DerivHistory(last, prev)
        /\ genCtrl => last.dst >= coarseVertCount) =>
           LET p == last.pre
               s == last.ext[1].index
               x == last.ext[1].weight
               n0 == Len(p.sources)
               H == IF compactWeights /\ BackDest(p) = last.dst
                    THEN EntriesOf(p, last.dst, s) ELSE {}
           IN /\ ~ub /\ ~assertFailed
              /\ IF H = {}
                 THEN /\ sources = Append(p.sources, s)
                      /\ dests = Append(p.dests, last.dst)
                      /\ weights = Append(p.weights, 0)
                      /\ duWeights = Append(p.duWeights, last.du * x)
                      /\ dvWeights = Append(p.dvWeights, last.dv * x)
                      /\ n0 \in StencilRange(Table, last.dst)
                 ELSE /\ sources = p.sources /\ weights = p.weights
                      /\ \A i \in H :
                             /\ i < Len(duWeights) /\ i < Len(dvWeights)
                             /\ i < Len(p.duWeights) /\ i < Len(p.dvWeights)
                             /\ At(duWeights, i) = At(p.duWeights, i) + last.du * x
                             /\ At(dvWeights, i) = At(p.dvWeights, i) + last.dv * x
    /\ ZeroEntriesCall(last) => Table = last.pre

\* C18 (cached size).  In every reachable state _size is the length of
\* sources, of _dests and of weights, so the tableSize the compaction scan is
\* given is the end of the flat storage and GetNumVerticesTotal() is the
\* number of contribution slots.
C18_CachedSize ==
    /\ size = Len(sources)
    /\ Len(dests) = Len(sources)
    /\ Len(weights) = Len(sources)
    /\ GetNumVerticesTotal(Table) = size

\* Two slots appended to a table without control vertex stencils, then a
\* call that the compaction scan turned into an accumulation.
C18_Witness ==
    /\ ~genCtrl /\ size = 2 /\ ncalls = 3
    /\ CoarseContrib(last) /\ last.pre.size = 2
    /\ weights # last.pre.weights

====
